---- MODULE Spec2Model ----
\* A model of the VitaeAgent backend: the RAG agent (backend/app/agent.py), its
\* FastAPI layer (backend/app/main.py) and the ingestion script
\* (backend/scripts/ingest.py).
\*
\* Representation.
\*   - Texts handed to users (queries, labels, previews, responses) are TLA+
\*     strings, built with \o the way the code builds them with f-strings.
\*   - A language code is a sequence of one-character strings, so that
\*     str.lower() can be computed character by character.
\*   - A chunk's page_content is a record [body, fill]: the string body followed
\*     by fill filler characters. Render turns it into the string; PySlice and
\*     PyLen compute text[:n] and len(text) on it.
\*   - The Chroma collection is a function from chunk number i (the id
\*     "chunk_<i>") to the stored entry.
EXTENDS Integers, Sequences, FiniteSets, TLC

\* ---------------------------------------------------------------- bounds
\* Number of runs of the ingestion script in one behaviour.
MaxRuns == 2
\* Number of files in data/, of URLs in blog_urls.txt and of repositories of
\* the GitHub user.
MaxItems == 3

\* ------------------------------------------------------- program constants
\* search_kwargs={"k": 5}
RetrieverK == 5
\* batch_size = 100
batch_size == 100
\* doc.page_content[:200]
PreviewLen == 200

None == "None"

\* ---------------------------------------------------------------- strings
Min(a, b) == IF a < b THEN a ELSE b

\* n filler characters
RECURSIVE Filler(_)
Filler(n) ==
  IF n >= 50 THEN "xxxxxxxxxxxxxxxxxxxxxxxxxxxxxxxxxxxxxxxxxxxxxxxxxx" \o Filler(n - 50)
  ELSE IF n >= 10 THEN "xxxxxxxxxx" \o Filler(n - 10)
  ELSE IF n >= 1 THEN "x" \o Filler(n - 1)
  ELSE ""

Render(t) == t.body \o Filler(t.fill)
PyLen(t) == Len(t.body) + t.fill
\* text[:n], for a text whose body is shorter than n
PySlice(t, n) == [body |-> t.body, fill |-> Min(t.fill, n - Len(t.body))]

RECURSIVE StrOf(_)
StrOf(cs) == IF cs = <<>> THEN "" ELSE Head(cs) \o StrOf(Tail(cs))

UpperToLower ==
  ( "A" :> "a" @@ "B" :> "b" @@ "C" :> "c" @@ "D" :> "d" @@ "E" :> "e" @@
    "F" :> "f" @@ "G" :> "g" @@ "H" :> "h" @@ "I" :> "i" @@ "J" :> "j" @@
    "K" :> "k" @@ "L" :> "l" @@ "M" :> "m" @@ "N" :> "n" @@ "O" :> "o" @@
    "P" :> "p" @@ "Q" :> "q" @@ "R" :> "r" @@ "S" :> "s" @@ "T" :> "t" @@
    "U" :> "u" @@ "V" :> "v" @@ "W" :> "w" @@ "X" :> "x" @@ "Y" :> "y" @@
    "Z" :> "z" )

\* A forgotten .lower(): the code is compared as typed.
LowerNoFold(s) == s

\* str.lower()
Lower(s) == [i \in 1..Len(s) |-> IF s[i] \in DOMAIN UpperToLower THEN UpperToLower[s[i]] ELSE s[i]]

EN == <<"e", "n">>
FR == <<"f", "r">>
\* ['en', 'english']
EnglishNames == {EN, <<"e", "n", "g", "l", "i", "s", "h">>}

\* ------------------------------------------------------------ source label
\* metadata.get(key, default)
Get(metadata, key, default) == IF key \in DOMAIN metadata THEN metadata[key] ELSE default

\* A label whose PDF page is printed as stored (0-based).
ExtractZeroBased(metadata) ==
  LET source_type == Get(metadata, "source_type", "unknown") IN
  IF source_type = "pdf"
    THEN Get(metadata, "source", "Unknown PDF")
         \o (IF "page" \in DOMAIN metadata THEN ", Page " \o ToString(metadata.page) ELSE "")
    ELSE IF source_type = "github" THEN "GitHub: " \o Get(metadata, "repo_name", "Unknown Repository")
    ELSE Get(metadata, "source", "Unknown Source")

\* VitaeAgent._extract_source_info. A missing page is the code's default ''.
extract_source_info(metadata) ==
  LET source_type == Get(metadata, "source_type", "unknown") IN
  CASE source_type = "pdf" ->
         Get(metadata, "source", "Unknown PDF")
         \o (IF "page" \in DOMAIN metadata
               THEN ", Page " \o ToString(metadata.page + 1)
               ELSE "")
    [] source_type = "text" -> Get(metadata, "source", "Unknown Text File")
    [] source_type = "blog" ->
         LET title == Get(metadata, "title", "Blog Post")
             url == Get(metadata, "url", "")
         IN IF url # "" THEN title \o " - " \o url ELSE title
    [] source_type = "github" ->
         "GitHub: " \o Get(metadata, "repo_name", "Unknown Repository")
    [] OTHER -> Get(metadata, "source", "Unknown Source")

\* --------------------------------------------------- documents and chunks
\* What the loaders hand to process_and_store_documents. A Document's
\* page_content is given as the sequence of windows the text splitter cuts it
\* into; every window inherits the document's metadata.
PdfMeta(name, page) ==
  [source |-> name, source_type |-> "pdf", file_path |-> "data/" \o name, page |-> page]
TextMeta(name) ==
  [source |-> name, source_type |-> "text", file_path |-> "data/" \o name]
BlogMeta(url, title) ==
  [source |-> url, source_type |-> "blog", title |-> title, url |-> url]
GithubMeta(repo_name) ==
  [source |-> "GitHub: " \o repo_name, source_type |-> "github", repo_name |-> repo_name,
   repo_url |-> "https://github.com/u/" \o repo_name,
   language |-> "Python", topics |-> <<"rag">>]

Short(body) == [body |-> body, fill |-> 0]
\* a text of exactly n characters
Exactly(body, n) == [body |-> body, fill |-> n - Len(body)]

\* The sources as first written (v = 1) and after an edit (v = 2): the edit
\* changes every text and shortens page 1 of the PDF to one window.
SmallCorpus(v) ==
  LET tag == " v" \o ToString(v) IN
  << [page_content |->
        IF v = 1
          THEN << Exactly("cv.pdf p1 a" \o tag \o " ", PreviewLen + 1),
                  Exactly("cv.pdf p1 b" \o tag \o " ", PreviewLen) >>
          ELSE << Exactly("cv.pdf p1 a" \o tag \o " ", PreviewLen + 1) >>,
      metadata |-> PdfMeta("cv.pdf", 0)],
     [page_content |-> << Short("cv.pdf p3" \o tag) >>, metadata |-> PdfMeta("cv.pdf", 2)],
     [page_content |-> << Short("bio" \o tag) >>, metadata |-> TextMeta("bio.txt")],
     [page_content |-> << Short("post" \o tag) >>,
      metadata |-> BlogMeta("https://blog.example/p", "My Post")],
     [page_content |-> << Short("Repository: vitae-agent" \o tag) >>,
      metadata |-> GithubMeta("vitae-agent")] >>

\* More chunks than one batch holds; the last document straddles the batch
\* boundary.
LargeCorpus ==
  << [page_content |-> [j \in 1..(batch_size - 1) |-> Short("notes #" \o ToString(j))],
      metadata |-> TextMeta("notes.md")],
     [page_content |-> << Short("talk p1 a"), Short("talk p1 b") >>,
      metadata |-> PdfMeta("talk.pdf", 0)] >>

CorpusNames == {"none", "small1", "small2", "large"}
ServingCorpora == {"none", "small1"}

Documents(c) ==
  CASE c = "none" -> <<>>
    [] c = "small1" -> SmallCorpus(1)
    [] c = "small2" -> SmallCorpus(2)
    [] c = "large" -> LargeCorpus

\* text_splitter.split_documents(documents)
RECURSIVE split_documents(_)
split_documents(documents) ==
  IF documents = <<>> THEN <<>>
  ELSE LET d == Head(documents) IN
       [j \in 1..Len(d.page_content) |->
          [page_content |-> d.page_content[j], metadata |-> d.metadata]]
       \o split_documents(Tail(documents))

\* The chunks of each corpus, computed once.
ChunkTable == [c \in CorpusNames |-> split_documents(Documents(c))]

\* embeddings.embed_documents: one vector per text
Embed(text) == <<"vec", text.body, text.fill>>

\* ---------------------------------------------------------------- loaders
\* The sources of a run. data/ is a listing of files, each with its extension,
\* whether its loader raises, and (for a PDF) its number of pages; the file at
\* position i is named f<i>.<ext>. blog_urls.txt is a list of URLs, each with
\* the outcome of fetching it ("ok", "empty": no text in the page, "error":
\* the request or the parse raises) and whether the page has a <title>. The
\* GitHub user has a list of repositories, each of which is processed with a
\* README ("ok"), without one ("no readme"), or raises ("error").
Seqs(S, n) == UNION {[1..k -> S] : k \in 0..n}

FileItems ==
  {f \in [ext : {"pdf", "txt", "md"}, load : {"ok", "error"}, pages : {1, 2}] :
     f.pages = 2 => (f.ext = "pdf" /\ f.load = "ok")}
UrlItems == [fetch : {"ok", "empty", "error"}, titled : BOOLEAN]
RepoItems == [outcome : {"ok", "no readme", "error"}]

FileName(i, ext) == "f" \o ToString(i) \o "." \o ext
UrlOf(i) == "https://blog.example/p" \o ToString(i)
RepoName(i) == "repo" \o ToString(i)

\* list(self.data_dir.glob("*.<ext>")): the files of that extension, named,
\* in listing order
Glob(files, ext) ==
  SelectSeq([i \in 1..Len(files) |-> [name |-> FileName(i, files[i].ext),
                                      ext |-> files[i].ext,
                                      load |-> files[i].load,
                                      pages |-> files[i].pages]],
            LAMBDA f : f.ext = ext)

\* The loop of load_pdf_documents: loader.load() gives one Document per page.
RECURSIVE load_pdf_files(_)
load_pdf_files(pdf_files) ==
  IF pdf_files = <<>> THEN <<>>
  ELSE LET pdf_file == Head(pdf_files)
           docs == IF pdf_file.load = "ok"
                     THEN [pg \in 1..pdf_file.pages |->
                             [page_content |-> << Short(pdf_file.name \o " p" \o ToString(pg)) >>,
                              metadata |-> PdfMeta(pdf_file.name, pg - 1)]]
                     ELSE <<>>
       IN docs \o load_pdf_files(Tail(pdf_files))

\* A loop without its try/except: the first file that fails to load ends it.
RECURSIVE load_pdf_filesAbort(_)
load_pdf_filesAbort(pdf_files) ==
  IF pdf_files = <<>> THEN <<>>
  ELSE LET pdf_file == Head(pdf_files) IN
       IF pdf_file.load = "ok"
         THEN [pg \in 1..pdf_file.pages |->
                 [page_content |-> << Short(pdf_file.name \o " p" \o ToString(pg)) >>,
                  metadata |-> PdfMeta(pdf_file.name, pg - 1)]]
              \o load_pdf_filesAbort(Tail(pdf_files))
         ELSE <<>>

load_pdf_documentsAbort(files) == load_pdf_filesAbort(Glob(files, "pdf"))

\* DataIngestionEngine.load_pdf_documents
load_pdf_documents(files) == load_pdf_files(Glob(files, "pdf"))

\* The loop of load_text_documents: TextLoader gives one Document per file.
RECURSIVE load_text_files(_)
load_text_files(text_files) ==
  IF text_files = <<>> THEN <<>>
  ELSE LET text_file == Head(text_files)
           docs == IF text_file.load = "ok"
                     THEN << [page_content |-> << Short("text of " \o text_file.name) >>,
                              metadata |-> TextMeta(text_file.name)] >>
                     ELSE <<>>
       IN docs \o load_text_files(Tail(text_files))

\* DataIngestionEngine.load_text_documents: the *.txt files, then the *.md
\* files
load_text_documents(files) == load_text_files(Glob(files, "txt") \o Glob(files, "md"))

\* DataIngestionEngine.scrape_blog_urls, from the URL at position i on: the
\* Documents returned and the requests and sleeps made, in order.
RECURSIVE scrape_from(_, _)
scrape_from(urls, i) ==
  IF i > Len(urls) THEN [documents |-> <<>>, events |-> <<>>]
  ELSE LET url == UrlOf(i)
           rest == scrape_from(urls, i + 1)
           title == IF urls[i].titled THEN "Post " \o ToString(i) ELSE url
       IN CASE urls[i].fetch = "ok" ->
                 [documents |-> << [page_content |-> << Short("post at " \o url) >>,
                                    metadata |-> BlogMeta(url, title)] >> \o rest.documents,
                  events |-> << <<"GET", url>>, <<"sleep", 1>> >> \o rest.events]
            [] urls[i].fetch = "empty" ->
                 [documents |-> rest.documents,
                  events |-> << <<"GET", url>>, <<"sleep", 1>> >> \o rest.events]
            [] OTHER ->
                 [documents |-> rest.documents,
                  events |-> << <<"GET", url>> >> \o rest.events]

scrape_blog_urls(urls) == scrape_from(urls, 1)

\* The loop over the repositories of fetch_github_repositories.
RECURSIVE fetch_repos(_, _)
fetch_repos(repositories, i) ==
  IF i > Len(repositories) THEN <<>>
  ELSE LET repo_name == RepoName(i)
           content == "Repository: " \o repo_name
                      \o (IF repositories[i].outcome = "ok" THEN "\n\nREADME:\n# " \o repo_name ELSE "")
           docs == IF repositories[i].outcome = "error" THEN <<>>
                   ELSE << [page_content |-> << Short(content) >>,
                            metadata |-> GithubMeta(repo_name)] >>
       IN docs \o fetch_repos(repositories, i + 1)

\* DataIngestionEngine.fetch_github_repositories: nothing without GITHUB_TOKEN,
\* nothing when listing the repositories fails.
fetch_github_repositories(github_token, listing, repositories) ==
  IF ~github_token THEN <<>>
  ELSE IF listing = "error" THEN <<>>
  ELSE fetch_repos(repositories, 1)

\* ------------------------------------------------------------- retrieval
Ids(coll) == DOMAIN coll

\* collection.count()
Count(coll) == Cardinality(Ids(coll))

\* The similarity ranking of the stored entries for a query: a fixed total
\* order that depends on the query.
Distance(query, i) ==
  LET start == Len(query) % 3 IN IF i >= start THEN i - start ELSE i + 1000000

RECURSIVE Nearest(_, _, _)
Nearest(ids, query, k) ==
  IF k = 0 \/ ids = {} THEN <<>>
  ELSE LET best == CHOOSE i \in ids : \A j \in ids : Distance(query, i) <= Distance(query, j)
       IN <<best>> \o Nearest(ids \ {best}, query, k - 1)

\* retriever.get_relevant_documents(query): the k nearest entries, nearest first
get_relevant_documents(coll, query) ==
  LET order == Nearest(Ids(coll), query, RetrieverK) IN
  [n \in 1..Len(order) |-> coll[order[n]]]

\* format_docs of _create_rag_chain
RECURSIVE JoinBlank(_)
JoinBlank(parts) ==
  IF parts = <<>> THEN ""
  ELSE IF Len(parts) = 1 THEN parts[1]
  ELSE parts[1] \o "\n\n" \o JoinBlank(Tail(parts))

format_docs(docs) ==
  JoinBlank([n \in 1..Len(docs) |->
    Render(docs[n].document) \o "\n[Source: " \o extract_source_info(docs[n].metadata) \o "]"])

\* The language model's text for a prompt (context and question): one fixed
\* text per prompt.
Generate(context, question) == "Answer to <" \o question \o "> from <" \o context \o ">"

\* ------------------------------------------------------------ translation
\* What the translation provider does during one call of chat: detect fails
\* or names a language; translate fails or succeeds.
ProviderOutcomes == [detect : {"error", EN, FR}, translate : {"error", "ok"}]

\* result['translatedText']
TranslatedText(text, source_lang, target_language) ==
  "[" \o StrOf(source_lang) \o "->" \o StrOf(target_language) \o "] " \o text

\* A translate_text whose provider errors are not caught: the failed call's
\* exception text comes back in place of the text.
translate_textNoCatch(translator, text, target_language, prov) ==
  IF translator = None \/ Lower(target_language) \in EnglishNames
    THEN [value |-> text, calls |-> <<>>]
  ELSE IF prov.detect = "error"
    THEN [value |-> "Translation error", calls |-> <<"detect failed">>]
  ELSE IF prov.detect = target_language
    THEN [value |-> text, calls |-> <<"detect">>]
  ELSE IF prov.translate = "error"
    THEN [value |-> "Translation error", calls |-> <<"detect", "translate failed">>]
  ELSE [value |-> TranslatedText(text, prov.detect, target_language),
        calls |-> <<"detect", "translate">>]

\* VitaeAgent.translate_text: the returned text and the provider calls made
translate_text(translator, text, target_language, prov) ==
  IF translator = None \/ Lower(target_language) \in EnglishNames
    THEN [value |-> text, calls |-> <<>>]
  ELSE IF prov.detect = "error"
    THEN [value |-> text, calls |-> <<"detect failed">>]
  ELSE IF prov.detect = target_language
    THEN [value |-> text, calls |-> <<"detect">>]
  ELSE IF prov.translate = "error"
    THEN [value |-> text, calls |-> <<"detect", "translate failed">>]
  ELSE [value |-> TranslatedText(text, prov.detect, target_language),
        calls |-> <<"detect", "translate">>]

\* ------------------------------------------------------------------- chat
Apology ==
  "I apologize, but I encountered an error while processing your question. Please try again or rephrase your question."

\* The steps of chat that can raise, in the order they run. A call is given the
\* first step that raises in it, or "none".
ChatSteps == {"retrieve", "generate", "sources"}
Faults == {"none"} \cup ChatSteps

\* the except branch of chat
ErrorAnswer(query, language, e) ==
  [response |-> Apology,
   sources |-> <<>>,
   original_query |-> query,
   processed_query |-> query,
   language |-> language,
   error |-> e]

\* The conditional expression read with the other precedence:
\* text[:200] + ("..." if len(text) > 200 else text).
content_previewMisparsed(text) ==
  Render(PySlice(text, PreviewLen)) \o (IF PyLen(text) > PreviewLen THEN "..." ELSE Render(text))

\* "content_preview" of one source
content_preview(text) ==
  IF PyLen(text) > PreviewLen
    THEN Render(PySlice(text, PreviewLen)) \o "..."
    ELSE Render(text)

\* The try block of VitaeAgent.chat on the agent self and the collection coll.
\* fault is the step that raises when reached, prov is the translation
\* provider's behaviour. The result says whether an exception left the block,
\* the Answer returned or the exception's text, and the log of the calls made
\* on the retriever, the model and the translator.
chat_try(self, coll, query, language, fault, prov) ==
  LET translating == Lower(language) \notin EnglishNames /\ self.translator # None
      tq == IF translating
              THEN translate_text(self.translator, query, EN, prov)
              ELSE [value |-> query, calls |-> <<>>]
      english_query == tq.value
      docs == get_relevant_documents(coll, english_query)
      response == Generate(format_docs(docs), english_query)
      ta == IF translating
              THEN translate_text(self.translator, response, language, prov)
              ELSE [value |-> response, calls |-> <<>>]
      final_response == ta.value
      source_docs == get_relevant_documents(coll, english_query)
      sources == [n \in 1..Len(source_docs) |->
                    [source |-> extract_source_info(source_docs[n].metadata),
                     content_preview |-> content_preview(source_docs[n].document)]]
  IN
  IF fault = "retrieve"
    THEN [raised |-> TRUE, e |-> "retriever error",
          calls |-> tq.calls \o <<"retrieve failed">>]
  ELSE IF fault = "generate"
    THEN [raised |-> TRUE, e |-> "llm error",
          calls |-> tq.calls \o <<"retrieve", "generate failed">>]
  ELSE IF fault = "sources"
    THEN [raised |-> TRUE, e |-> "retriever error",
          calls |-> tq.calls \o <<"retrieve", "generate">> \o ta.calls \o <<"retrieve failed">>]
  ELSE [raised |-> FALSE,
        answer |->
          [response |-> final_response,
           sources |-> sources,
           original_query |-> query,
           processed_query |-> english_query,
           language |-> language,
           source_count |-> Len(sources)],
        calls |-> tq.calls \o <<"retrieve", "generate">> \o ta.calls \o <<"retrieve">>]

\* A chat without its except branch: the exception leaves the call.
chatNoExcept(self, coll, query, language, fault, prov) ==
  LET t == chat_try(self, coll, query, language, fault, prov) IN
  IF t.raised
    THEN [answer |-> [raised |-> t.e], calls |-> t.calls]
    ELSE [answer |-> t.answer, calls |-> t.calls]

\* A chat that refuses a non-English language when it has no translator.
chatStrict(self, coll, query, language, fault, prov) ==
  LET t == chat_try(self, coll, query, language, fault, prov) IN
  IF Lower(language) \notin EnglishNames /\ self.translator = None
    THEN [answer |-> ErrorAnswer(query, language, "translation is not configured"),
          calls |-> <<>>]
  ELSE IF t.raised
    THEN [answer |-> ErrorAnswer(query, language, t.e), calls |-> t.calls]
    ELSE [answer |-> t.answer, calls |-> t.calls]

\* VitaeAgent.chat: the try block, and the except branch that turns an
\* exception into the fallback Answer.
chat(self, coll, query, language, fault, prov) ==
  LET t == chat_try(self, coll, query, language, fault, prov) IN
  IF t.raised
    THEN [answer |-> ErrorAnswer(query, language, t.e), calls |-> t.calls]
    ELSE [answer |-> t.answer, calls |-> t.calls]

\* ----------------------------------------------------------- health_check
\* A health_check whose except branch drops the exception: a failed probe
\* leaves no error field in the status.
health_checkSilent(self, coll, probe_fault, test_response) ==
  [retriever_ready |-> probe_fault # "retriever",
   llm_ready |-> probe_fault = "none" /\ Len(test_response) > 0,
   database_count |->
     IF probe_fault = "retriever" THEN 0 ELSE Len(get_relevant_documents(coll, "test")),
   translator_available |-> self.translator # None,
   model_provider |-> self.model_provider,
   embedding_provider |-> self.embedding_provider]

\* VitaeAgent.health_check. probe_fault is the probe that raises ("none",
\* "retriever" or "llm"); test_response is the model's reply to "Hello".
health_check(self, coll, probe_fault, test_response) ==
  LET status == [retriever_ready |-> FALSE,
                 llm_ready |-> FALSE,
                 database_count |-> 0,
                 translator_available |-> self.translator # None,
                 model_provider |-> self.model_provider,
                 embedding_provider |-> self.embedding_provider]
      test_results == get_relevant_documents(coll, "test")
      probed == [status EXCEPT !.retriever_ready = TRUE,
                               !.database_count = Len(test_results)]
  IN
  IF probe_fault = "retriever"
    THEN status @@ [error |-> "retriever error"]
  ELSE IF probe_fault = "llm"
    THEN probed @@ [error |-> "llm error"]
  ELSE [probed EXCEPT !.llm_ready = Len(test_response) > 0]

\* ------------------------------------------------------------ environment
\* The process environment (os.getenv) and the reachability of the services
\* probed when a process starts. An unset variable is a missing field.
Chars_openai == <<"o", "p", "e", "n", "a", "i">>
Chars_OpenAI == <<"O", "p", "e", "n", "A", "I">>
Chars_local == <<"l", "o", "c", "a", "l">>
Chars_ollama == <<"o", "l", "l", "a", "m", "a">>
Chars_bogus == <<"b", "o", "g", "u", "s">>

Environments ==
  { [ollama_up |-> TRUE, translate_ok |-> TRUE],
    [ollama_up |-> TRUE, translate_ok |-> TRUE, GOOGLE_APPLICATION_CREDENTIALS |-> "creds.json"],
    [ollama_up |-> TRUE, translate_ok |-> FALSE, GOOGLE_APPLICATION_CREDENTIALS |-> "creds.json"],
    [ollama_up |-> FALSE, translate_ok |-> TRUE],
    [ollama_up |-> FALSE, translate_ok |-> TRUE, EMBEDDING_PROVIDER |-> Chars_OpenAI,
     MODEL_PROVIDER |-> Chars_openai, OPENAI_API_KEY |-> "sk"],
    [ollama_up |-> TRUE, translate_ok |-> TRUE, EMBEDDING_PROVIDER |-> Chars_OpenAI],
    [ollama_up |-> TRUE, translate_ok |-> TRUE, MODEL_PROVIDER |-> Chars_openai],
    [ollama_up |-> TRUE, translate_ok |-> TRUE, EMBEDDING_PROVIDER |-> Chars_bogus],
    [ollama_up |-> TRUE, translate_ok |-> TRUE, MODEL_PROVIDER |-> Chars_bogus] }

\* ModelConfig.get_embeddings: the provider selected, or the error raised
get_embeddings(env) ==
  LET provider == Lower(Get(env, "EMBEDDING_PROVIDER", Chars_local)) IN
  IF provider = Chars_openai
    THEN IF "OPENAI_API_KEY" \in DOMAIN env
           THEN [ok |-> TRUE, value |-> "OpenAIEmbeddings"]
           ELSE [ok |-> FALSE, value |-> "ValueError: OPENAI_API_KEY is required when using OpenAI embeddings"]
  ELSE IF provider = Chars_local
    THEN [ok |-> TRUE, value |-> "HuggingFaceEmbeddings"]
  ELSE [ok |-> FALSE, value |-> "ValueError: Unsupported embedding provider"]

\* ModelConfig.get_llm
get_llm(env) ==
  LET provider == Lower(Get(env, "MODEL_PROVIDER", Chars_ollama)) IN
  IF provider = Chars_openai
    THEN IF "OPENAI_API_KEY" \in DOMAIN env
           THEN [ok |-> TRUE, value |-> "ChatOpenAI"]
           ELSE [ok |-> FALSE, value |-> "ValueError: OPENAI_API_KEY is required when using OpenAI provider"]
  ELSE IF provider = Chars_ollama
    THEN IF env.ollama_up
           THEN [ok |-> TRUE, value |-> "ChatOllama"]
           ELSE [ok |-> FALSE, value |-> "ConnectionError: Cannot connect to Ollama"]
  ELSE [ok |-> FALSE, value |-> "ValueError: Unsupported model provider"]

\* The embedding selection of DataIngestionEngine.__init__
ingest_embeddings(env) ==
  LET embedding_provider == Lower(Get(env, "EMBEDDING_PROVIDER", Chars_local)) IN
  IF embedding_provider = Chars_openai
    THEN IF "OPENAI_API_KEY" \in DOMAIN env
           THEN [ok |-> TRUE, value |-> "OpenAIEmbeddings"]
           ELSE [ok |-> FALSE, value |-> "ValueError: OPENAI_API_KEY is required when using OpenAI embeddings"]
  ELSE [ok |-> TRUE, value |-> "HuggingFaceEmbeddings"]

CollectionName == "vitae_knowledge"

NoAgent == [none |-> TRUE]

\* A constructor that does not look the collection up first: the vector store
\* wrapper gets or creates it, so a missing collection is no error.
VitaeAgentLenient(env, colls) ==
  LET e == get_embeddings(env)
      l == get_llm(env)
  IN
  IF ~e.ok THEN [ok |-> FALSE, value |-> e.value]
  ELSE IF ~l.ok THEN [ok |-> FALSE, value |-> l.value]
  ELSE [ok |-> TRUE,
        value |-> [embeddings |-> e.value,
                   llm |-> l.value,
                   translator |->
                     IF "GOOGLE_APPLICATION_CREDENTIALS" \in DOMAIN env /\ env.translate_ok
                       THEN "Client" ELSE None,
                   model_provider |-> StrOf(Get(env, "MODEL_PROVIDER", Chars_ollama)),
                   embedding_provider |-> StrOf(Get(env, "EMBEDDING_PROVIDER", Chars_local))]]

\* VitaeAgent.__init__ against the Chroma database with the collections colls
VitaeAgent(env, colls) ==
  LET e == get_embeddings(env)
      l == get_llm(env)
  IN
  IF ~e.ok THEN [ok |-> FALSE, value |-> e.value]
  ELSE IF ~l.ok THEN [ok |-> FALSE, value |-> l.value]
  ELSE IF CollectionName \notin colls
    THEN [ok |-> FALSE, value |-> "ValueError: Collection vitae_knowledge does not exist"]
  ELSE [ok |-> TRUE,
        value |-> [embeddings |-> e.value,
                   llm |-> l.value,
                   translator |->
                     IF "GOOGLE_APPLICATION_CREDENTIALS" \in DOMAIN env /\ env.translate_ok
                       THEN "Client" ELSE None,
                   model_provider |-> StrOf(Get(env, "MODEL_PROVIDER", Chars_ollama)),
                   embedding_provider |-> StrOf(Get(env, "EMBEDDING_PROVIDER", Chars_local))]]

\* ------------------------------------------------------------------ state
VARIABLES
  chroma,          \* the names of the collections in the persistent database db/
  collection,      \* the entries of the collection vitae_knowledge
  agent_instance,  \* agent.py: _agent_instance
  agent,           \* main.py: agent
  engine,          \* the ingestion script: idle, or storing the chunks of a corpus
  runs,            \* the ingestion runs that ended: corpus, failed batches, count()
  result           \* what the last call returned, until its caller takes it

vars == <<chroma, collection, agent_instance, agent, engine, runs, result>>

Idle == [pc |-> "idle"]
NoResult == [op |-> "none"]

Init ==
  /\ chroma = {}
  /\ collection = <<>>
  /\ agent_instance = NoAgent
  /\ agent = NoAgent
  /\ engine = Idle
  /\ runs = <<>>
  /\ result = NoResult

\* -------------------------------------------------------------- serving
\* get_agent() called by the lifespan hook of main.py when a server process
\* starts (both module globals are unset in a fresh process).
Lifespan ==
  \E env \in Environments :
    /\ result = NoResult
    /\ agent = NoAgent
    /\ LET made == IF agent_instance = NoAgent
                     THEN VitaeAgent(env, chroma)
                     ELSE [ok |-> TRUE, value |-> agent_instance]
       IN IF made.ok
            THEN /\ agent_instance' = made.value
                 /\ agent' = made.value
                 /\ result' = [op |-> "lifespan", env |-> env, raised |-> "no"]
            ELSE /\ UNCHANGED <<agent_instance, agent>>
                 /\ result' = [op |-> "lifespan", env |-> env, raised |-> made.value]
    /\ UNCHANGED <<chroma, collection, engine, runs>>

Queries == {"", "  ", "What is your background?"}
Languages == {EN, <<"E", "N">>, <<"e", "n", "g", "l", "i", "s", "h">>, FR}

\* A chat that keeps conversation memory on the agent.
ChatWithMemory ==
  \E query \in Queries, language \in Languages,
     fault \in Faults, prov \in ProviderOutcomes :
    /\ result = NoResult
    /\ agent # NoAgent
    /\ LET r == chat(agent, collection, query, language, fault, prov) IN
       result' = [op |-> "chat", fault |-> fault, answer |-> r.answer, calls |-> r.calls]
    /\ agent' = [f \in DOMAIN agent \cup {"last_query"} |->
                   IF f = "last_query" THEN query ELSE agent[f]]
    /\ UNCHANGED <<chroma, collection, agent_instance, engine, runs>>

\* A direct call of VitaeAgent.chat(query, language) on the constructed agent.
Chat ==
  \E query \in Queries, language \in Languages,
     fault \in Faults, prov \in ProviderOutcomes :
    /\ result = NoResult
    /\ agent # NoAgent
    /\ LET r == chat(agent, collection, query, language, fault, prov) IN
       result' = [op |-> "chat", fault |-> fault, answer |-> r.answer, calls |-> r.calls]
    /\ UNCHANGED <<chroma, collection, agent_instance, agent, engine, runs>>

\* A direct call of VitaeAgent.translate_text(text, target_language).
TranslateText ==
  \E text \in Queries, target_language \in Languages, prov \in ProviderOutcomes :
    /\ result = NoResult
    /\ agent # NoAgent
    /\ LET r == translate_text(agent.translator, text, target_language, prov) IN
       result' = [op |-> "translate_text", text |-> text,
                  target_language |-> target_language, prov |-> prov,
                  value |-> r.value, calls |-> r.calls]
    /\ UNCHANGED <<chroma, collection, agent_instance, agent, engine, runs>>

\* A direct call of VitaeAgent.health_check().
HealthCheck ==
  \E probe_fault \in {"none", "retriever", "llm"}, test_response \in {"", "Hi"} :
    /\ result = NoResult
    /\ agent # NoAgent
    /\ result' = [op |-> "health_check",
                  probe_fault |-> probe_fault,
                  status |-> health_check(agent, collection, probe_fault, test_response)]
    /\ UNCHANGED <<chroma, collection, agent_instance, agent, engine, runs>>

\* The /stats endpoint of main.py: get_stats.
StatsEndpoint ==
  \E probe_fault \in {"none", "retriever", "llm"}, test_response \in {"", "Hi"} :
    /\ result = NoResult
    /\ IF agent = NoAgent
         THEN result' = [op |-> "GET /stats", http |-> 503]
         ELSE LET health_data == health_check(agent, collection, probe_fault, test_response) IN
              result' = [op |-> "GET /stats",
                         http |-> 200,
                         probe_fault |-> probe_fault,
                         stats |-> [knowledge_base_size |-> health_data.database_count,
                                    retriever_status |->
                                      IF health_data.retriever_ready THEN "ready" ELSE "not_ready",
                                    llm_status |->
                                      IF health_data.llm_ready THEN "ready" ELSE "not_ready",
                                    translation_available |-> health_data.translator_available,
                                    api_version |-> "1.0.0"],
                         health_data |-> health_data]
    /\ UNCHANGED <<chroma, collection, agent_instance, agent, engine, runs>>

\* request.query.strip(): the queries of the model carry outer whitespace only
\* when they are blank.
Strip(query) == IF query \in {"", "  "} THEN "" ELSE query

\* The /chat endpoint of main.py.
ChatEndpoint ==
  \E query \in Queries, language \in Languages,
     fault \in Faults, prov \in ProviderOutcomes :
    /\ result = NoResult
    /\ IF agent = NoAgent
         THEN result' = [op |-> "POST /chat", http |-> 503,
                         detail |-> "VitaeAgent is not initialized"]
         ELSE IF Strip(query) = ""
           THEN result' = [op |-> "POST /chat", http |-> 400,
                           detail |-> "Query cannot be empty"]
         ELSE LET r == chat(agent, collection, query, language, fault, prov) IN
              IF "error" \in DOMAIN r.answer
                THEN result' = [op |-> "POST /chat", http |-> 500,
                                detail |-> "An error occurred while processing your request"]
                ELSE result' = [op |-> "POST /chat", http |-> 200, body |-> r.answer]
    /\ UNCHANGED <<chroma, collection, agent_instance, agent, engine, runs>>

\* VitaeAgent.get_suggested_questions
get_suggested_questions ==
  << "What is your professional background?",
     "Tell me about your most significant project.",
     "What programming languages and technologies do you work with?",
     "What are your key achievements in your career?",
     "Describe your leadership experience.",
     "What industries have you worked in?",
     "Tell me about your education and certifications.",
     "What type of challenges do you excel at solving?",
     "Show me examples of your technical work.",
     "What makes you unique as a professional?" >>

\* The /suggestions endpoint of main.py.
SuggestionsEndpoint ==
  /\ result = NoResult
  /\ IF agent = NoAgent
       THEN result' = [op |-> "GET /suggestions", http |-> 503,
                       detail |-> "VitaeAgent is not initialized"]
       ELSE result' = [op |-> "GET /suggestions", http |-> 200,
                       questions |-> get_suggested_questions]
  /\ UNCHANGED <<chroma, collection, agent_instance, agent, engine, runs>>

\* -------------------------------------------------------------- ingestion
\* ids = [f"chunk_{i}" for i in range(len(chunks))]: the id of the chunk at
\* offset i (0-based) of a run, given as its number.
ChunkId(i) == i

\* The entries one batch hands to collection.add: the chunks at offsets
\* i .. i + batch_size - 1 of the run.
Batch(chunks, i, embeddings) ==
  LET last == Min(i + batch_size, Len(chunks)) IN
  [id \in {ChunkId(n) : n \in i..(last - 1)} |->
     LET n == CHOOSE m \in i..(last - 1) : ChunkId(m) = id IN
     [document |-> chunks[n + 1].page_content,
      metadata |-> chunks[n + 1].metadata,
      embedding |-> <<embeddings>> \o Embed(chunks[n + 1].page_content)]]

\* An add that stores every entry of the batch under an id of its own, as
\* per-run ids would.
CollectionAppend(coll, batch) ==
  LET used == DOMAIN coll \cup DOMAIN batch
      base == 1 + CHOOSE m \in used : \A x \in used : x <= m
  IN [id \in DOMAIN coll \cup {base + b : b \in DOMAIN batch} |->
        IF id \in DOMAIN coll THEN coll[id] ELSE batch[id - base]]

\* collection.add: an entry whose id is already stored is left as it is.
CollectionAdd(coll, batch) ==
  [id \in DOMAIN coll \cup DOMAIN batch |-> IF id \in DOMAIN coll THEN coll[id] ELSE batch[id]]

\* main() of ingest.py up to the batch loop: construct the engine (embedding
\* selection, get or create the collection), load the documents, split them.
IngestStartOf(c) ==
  \E env \in Environments :
    /\ result = NoResult
    /\ engine = Idle
    /\ Len(runs) < MaxRuns
    /\ LET e == ingest_embeddings(env) IN
       IF ~e.ok
         THEN /\ result' = [op |-> "ingest", exit |-> 1, raised |-> e.value]
              /\ UNCHANGED <<chroma, engine, runs>>
         ELSE /\ chroma' = chroma \cup {CollectionName}
              /\ IF Documents(c) = <<>>
                   THEN /\ runs' = Append(runs, [corpus |-> c, failed |-> {},
                                                 count |-> Count(collection)])
                        /\ result' = [op |-> "ingest", exit |-> 0, count |-> Count(collection)]
                        /\ UNCHANGED engine
                   ELSE /\ engine' = [pc |-> "storing", corpus |-> c, i |-> 0,
                                      failed |-> {}, embeddings |-> e.value]
                        /\ UNCHANGED <<runs, result>>
    /\ UNCHANGED <<collection, agent_instance, agent>>

\* A run of the script beside the serving process, on sources that fit in
\* one batch.
IngestStart == \E c \in ServingCorpora : IngestStartOf(c)

\* A run of the script on any of the corpora.
IngestStartAny == \E c \in CorpusNames : IngestStartOf(c)

\* A batch loop without its try/except: the first failing batch ends the
\* loop, the exception reaches main() and the script exits with status 1.
StoreBatchAbort ==
  \E outcome \in {"stored", "embed error", "add error"} :
    /\ result = NoResult
    /\ engine.pc = "storing"
    /\ LET chunks == ChunkTable[engine.corpus]
           coll == IF outcome = "stored"
                     THEN CollectionAdd(collection,
                            Batch(chunks, engine.i, engine.embeddings))
                     ELSE collection
       IN /\ collection' = coll
          /\ IF outcome # "stored"
               THEN /\ engine' = Idle
                    /\ runs' = Append(runs, [corpus |-> engine.corpus,
                                             failed |-> engine.failed \cup {engine.i},
                                             count |-> Count(coll)])
                    /\ result' = [op |-> "ingest", exit |-> 1, raised |-> outcome]
               ELSE IF engine.i + batch_size < Len(chunks)
                 THEN /\ engine' = [engine EXCEPT !.i = @ + batch_size]
                      /\ UNCHANGED <<runs, result>>
                 ELSE /\ engine' = Idle
                      /\ runs' = Append(runs, [corpus |-> engine.corpus,
                                               failed |-> engine.failed,
                                               count |-> Count(coll)])
                      /\ result' = [op |-> "ingest", exit |-> 0, count |-> Count(coll)]
    /\ UNCHANGED <<chroma, agent_instance, agent>>

\* One iteration of the batch loop of process_and_store_documents; after the
\* last one run_ingestion reads collection.count() and the script ends.
StoreBatch ==
  \E outcome \in {"stored", "embed error", "add error"} :
    /\ result = NoResult
    /\ engine.pc = "storing"
    /\ LET chunks == ChunkTable[engine.corpus]
           coll == IF outcome = "stored"
                     THEN CollectionAdd(collection,
                            Batch(chunks, engine.i, engine.embeddings))
                     ELSE collection
           failed == IF outcome = "stored" THEN engine.failed
                     ELSE engine.failed \cup {engine.i}
       IN /\ collection' = coll
          /\ IF engine.i + batch_size < Len(chunks)
               THEN /\ engine' = [engine EXCEPT !.i = @ + batch_size, !.failed = failed]
                    /\ UNCHANGED <<runs, result>>
               ELSE /\ engine' = Idle
                    /\ runs' = Append(runs, [corpus |-> engine.corpus, failed |-> failed,
                                             count |-> Count(coll)])
                    /\ result' = [op |-> "ingest", exit |-> 0, count |-> Count(coll)]
    /\ UNCHANGED <<chroma, agent_instance, agent>>

\* The caller takes the returned value; calls are made one at a time.
Return ==
  /\ result # NoResult
  /\ result' = NoResult
  /\ UNCHANGED <<chroma, collection, agent_instance, agent, engine, runs>>

Next ==
  \/ Lifespan
  \/ Chat
  \/ TranslateText
  \/ HealthCheck
  \/ StatsEndpoint
  \/ ChatEndpoint
  \/ SuggestionsEndpoint
  \/ IngestStart
  \/ StoreBatch
  \/ Return

Spec == Init /\ [][Next]_vars

\* The ingestion script alone, on every corpus.
IngestNext ==
  \/ IngestStartAny
  \/ StoreBatch
  \/ Return

IngestSpec == Init /\ [][IngestNext]_vars

\* ------------------------------------------------- the label, on its own
\* Metadata records with every combination of present and missing fields.
Opt(key, values) == {<<>>} \cup {key :> v : v \in values}

MetadataInputs ==
  { t @@ so @@ pg @@ ti @@ u @@ rn :
      t \in Opt("source_type", {"pdf", "text", "blog", "github", "csv"}),
      so \in Opt("source", {"cv.pdf", "bio.txt"}),
      pg \in Opt("page", {0, 2}),
      ti \in Opt("title", {"My Post"}),
      u \in Opt("url", {"", "https://blog.example/p"}),
      rn \in Opt("repo_name", {"vitae-agent"}) }

\* A call of VitaeAgent._extract_source_info(metadata).
ExtractSourceInfo ==
  \E metadata \in MetadataInputs :
    /\ result = NoResult
    /\ result' = [op |-> "extract_source_info", metadata |-> metadata,
                  label |-> extract_source_info(metadata)]
    /\ UNCHANGED <<chroma, collection, agent_instance, agent, engine, runs>>

LabelNext ==
  \/ ExtractSourceInfo
  \/ Return

LabelSpec == Init /\ [][LabelNext]_vars

\* ------------------------------------------------- the loaders, on their own
LoadPdf ==
  \E files \in Seqs(FileItems, MaxItems) :
    /\ result = NoResult
    /\ result' = [op |-> "load_pdf_documents", files |-> files,
                  documents |-> load_pdf_documents(files)]
    /\ UNCHANGED <<chroma, collection, agent_instance, agent, engine, runs>>

LoadText ==
  \E files \in Seqs(FileItems, MaxItems) :
    /\ result = NoResult
    /\ result' = [op |-> "load_text_documents", files |-> files,
                  documents |-> load_text_documents(files)]
    /\ UNCHANGED <<chroma, collection, agent_instance, agent, engine, runs>>

Scrape ==
  \E urls \in Seqs(UrlItems, MaxItems) :
    /\ result = NoResult
    /\ LET r == scrape_blog_urls(urls) IN
       result' = [op |-> "scrape_blog_urls", urls |-> urls,
                  documents |-> r.documents, events |-> r.events]
    /\ UNCHANGED <<chroma, collection, agent_instance, agent, engine, runs>>

FetchGithub ==
  \E github_token \in BOOLEAN, listing \in {"ok", "error"},
     repositories \in Seqs(RepoItems, MaxItems) :
    /\ result = NoResult
    /\ result' = [op |-> "fetch_github_repositories", github_token |-> github_token,
                  listing |-> listing, repositories |-> repositories,
                  documents |-> fetch_github_repositories(github_token, listing, repositories)]
    /\ UNCHANGED <<chroma, collection, agent_instance, agent, engine, runs>>

LoadNext ==
  \/ LoadPdf
  \/ LoadText
  \/ Scrape
  \/ FetchGithub
  \/ Return

LoadSpec == Init /\ [][LoadNext]_vars

\* ------------------------------------- the provider selection, on its own
\* Every setting of the provider variables and of the hosted credential.
ProviderEnvironments ==
  { [ollama_up |-> up, translate_ok |-> TRUE] @@ ep @@ mp @@ key :
      up \in BOOLEAN,
      ep \in Opt("EMBEDDING_PROVIDER",
                 {Chars_local, Chars_openai, Chars_OpenAI, Chars_ollama, Chars_bogus, <<>>}),
      mp \in Opt("MODEL_PROVIDER", {Chars_ollama, Chars_openai, Chars_bogus}),
      key \in Opt("OPENAI_API_KEY", {"sk"}) }

\* The two processes read the same environment: ModelConfig in the server,
\* DataIngestionEngine.__init__ in the ingestion script.
SelectProviders ==
  \E env \in ProviderEnvironments :
    /\ result = NoResult
    /\ result' = [op |-> "select providers", env |-> env,
                  get_embeddings |-> get_embeddings(env),
                  get_llm |-> get_llm(env),
                  ingest_embeddings |-> ingest_embeddings(env)]
    /\ UNCHANGED <<chroma, collection, agent_instance, agent, engine, runs>>

ConfigNext ==
  \/ SelectProviders
  \/ Return

ConfigSpec == Init /\ [][ConfigNext]_vars

\* ------------------------------------------------- get_agent, on its own
\* A get_agent without the cache test: every call constructs.
get_agentAlways(instance, env, colls) ==
  LET made == VitaeAgent(env, colls) IN
  IF made.ok
    THEN [raised |-> "no", value |-> made.value, instance |-> made.value, constructed |-> TRUE]
    ELSE [raised |-> made.value, instance |-> instance, constructed |-> TRUE]

\* get_agent() with _agent_instance = instance: whether it raised, the
\* instance returned, the new value of _agent_instance, and whether
\* VitaeAgent() was called.
get_agent(instance, env, colls) ==
  IF instance = NoAgent
    THEN LET made == VitaeAgent(env, colls) IN
         IF made.ok
           THEN [raised |-> "no", value |-> made.value, instance |-> made.value,
                 constructed |-> TRUE]
           ELSE [raised |-> made.value, instance |-> instance, constructed |-> TRUE]
    ELSE [raised |-> "no", value |-> instance, instance |-> instance, constructed |-> FALSE]

\* A call of get_agent() in a process whose environment is env.
GetAgent ==
  \E env \in Environments :
    /\ result = NoResult
    /\ LET r == get_agent(agent_instance, env, chroma) IN
       /\ agent_instance' = r.instance
       /\ result' = [op |-> "get_agent", env |-> env, before |-> agent_instance, call |-> r]
    /\ UNCHANGED <<chroma, collection, agent, engine, runs>>

AgentNext ==
  \/ GetAgent
  \/ IngestStart
  \/ StoreBatch
  \/ Return

AgentSpec == Init /\ [][AgentNext]_vars

\* ================================================================ claims
Has(calls, x) == \E n \in 1..Len(calls) : calls[n] = x
StepRaised(calls) == Has(calls, "retrieve failed") \/ Has(calls, "generate failed")
TranslatorCalled(calls) ==
  \/ Has(calls, "detect") \/ Has(calls, "detect failed")
  \/ Has(calls, "translate") \/ Has(calls, "translate failed")
EnglishSpellings == {<<"e", "n">>, <<"E", "N">>, <<"e", "n", "g", "l", "i", "s", "h">>}
AnswerFields == {"response", "sources", "original_query", "processed_query", "language"}

\* C1: chat never raises. Every call returns an Answer (response, sources,
\* original_query, processed_query, language), whatever fails during it; when
\* a step raised, the Answer carries the fixed apology, no sources, the query
\* as original_query and as processed_query, the language, and an error detail.
C1_ChatNeverRaises ==
  result.op = "chat" =>
    /\ AnswerFields \subseteq DOMAIN result.answer
    /\ result.answer.original_query \in Queries
    /\ result.answer.language \in Languages
    /\ (result.fault # "none" <=> StepRaised(result.calls))
    /\ StepRaised(result.calls) =>
         /\ result.answer.response = Apology
         /\ result.answer.sources = <<>>
         /\ result.answer.processed_query = result.answer.original_query
         /\ "error" \in DOMAIN result.answer
         /\ result.answer.error \in {"retriever error", "llm error"}

\* A chat call in which the model raised after a retrieval, on an agent with a
\* translator and a non-English language.
C1_Witness ==
  /\ result.op = "chat"
  /\ Has(result.calls, "generate failed")
  /\ agent.translator # None
  /\ result.answer.language = FR
  /\ result.answer.response = Apology

\* C2: every Answer chat returns, on the success path and on the fallback path
\* alike, has response, sources, original_query, processed_query, language and
\* source_count, and source_count is the number of sources.
C2_AnswerWellFormed ==
  result.op = "chat" =>
    /\ AnswerFields \cup {"source_count"} \subseteq DOMAIN result.answer
    /\ result.answer.source_count = Len(result.answer.sources)

\* C3: chat(q, "en") never invokes the translator. For "en" in any letter case
\* and for "english", no detect or translate call is made, translator or not,
\* and processed_query is q.
C3_EnglishNeverTranslates ==
  (result.op = "chat" /\ result.answer.language \in EnglishSpellings) =>
    /\ ~TranslatorCalled(result.calls)
    /\ result.answer.processed_query = result.answer.original_query

\* A successful chat in language "EN" on an agent that has a translator.
C3_Witness ==
  /\ result.op = "chat"
  /\ result.answer.language = <<"E", "N">>
  /\ agent.translator # None
  /\ "error" \notin DOMAIN result.answer
  /\ Len(result.answer.sources) > 0

\* C4: without a translator, chat(q, "fr") returns what chat(q, "en") returns
\* on the same collection, with the same model and the same failures: the same
\* response, processed_query and sources; only language differs.
C4_NoTranslatorSameAsEnglish ==
  (result.op = "chat" /\ agent.translator = None /\ result.answer.language = FR) =>
    \A prov \in ProviderOutcomes :
      LET en == chat(agent, collection, result.answer.original_query, EN, result.fault, prov).answer
      IN /\ DOMAIN en = DOMAIN result.answer
         /\ en.language = EN
         /\ result.answer = [en EXCEPT !.language = FR]

\* A successful chat in "fr" on an agent without a translator, with sources.
C4_Witness ==
  /\ result.op = "chat"
  /\ agent.translator = None
  /\ result.answer.language = FR
  /\ "error" \notin DOMAIN result.answer
  /\ Len(result.answer.sources) > 0

\* C5: translate_text never raises. It returns the text unchanged when there
\* is no translator, when the target is English, when the detected language is
\* the target, and when detect or translate fails; otherwise it returns the
\* provider's translation. A chat call in which only the translator failed
\* returns a normal Answer, not the fallback.
C5_TranslationIsSoft ==
  /\ result.op = "translate_text" =>
       result.value =
         IF \/ agent.translator = None
            \/ result.target_language \in EnglishSpellings
            \/ result.prov.detect = "error"
            \/ result.prov.detect = result.target_language
            \/ result.prov.translate = "error"
           THEN result.text
           ELSE TranslatedText(result.text, result.prov.detect, result.target_language)
  /\ (result.op = "chat" /\ ~StepRaised(result.calls)) =>
       /\ "error" \notin DOMAIN result.answer
       /\ (Has(result.calls, "detect failed") \/ Has(result.calls, "translate failed")) =>
            result.answer.response =
              Generate(format_docs(get_relevant_documents(collection, result.answer.original_query)),
                       result.answer.original_query)

\* A translate_text call whose translate request failed.
C5_Witness ==
  /\ result.op = "translate_text"
  /\ Has(result.calls, "translate failed")
  /\ result.value = result.text

\* A chat call whose answer translation failed at detect and which still
\* returned the model's answer.
C5_WitnessChat ==
  /\ result.op = "chat"
  /\ Has(result.calls, "detect failed")
  /\ "error" \notin DOMAIN result.answer

\* C6: the source label follows source_type. pdf: "<source>, Page <page+1>"
\* (cv.pdf with page 2 is "cv.pdf, Page 3"); text: the file name; blog:
\* "<title> - <url>"; github: "GitHub: <repo_name>" ("GitHub: vitae-agent");
\* any other or missing source_type: the source field, or "Unknown Source"
\* when there is none.
C6_SourceLabel ==
  result.op = "extract_source_info" =>
    LET m == result.metadata
        fields == DOMAIN m
        type == IF "source_type" \in fields THEN m.source_type ELSE "missing"
    IN /\ (type = "pdf" /\ {"source", "page"} \subseteq fields) =>
            result.label = m.source \o ", Page " \o ToString(m.page + 1)
       /\ (type = "pdf" /\ {"source", "page"} \subseteq fields /\ m.source = "cv.pdf" /\ m.page = 2) =>
            result.label = "cv.pdf, Page 3"
       /\ (type = "text" /\ "source" \in fields) => result.label = m.source
       /\ (type = "blog" /\ {"title", "url"} \subseteq fields /\ m.url # "") =>
            result.label = m.title \o " - " \o m.url
       /\ (type = "github" /\ "repo_name" \in fields) =>
            result.label = "GitHub: " \o m.repo_name
       /\ (type = "github" /\ "repo_name" \in fields /\ m.repo_name = "vitae-agent") =>
            result.label = "GitHub: vitae-agent"
       /\ (type \notin {"pdf", "text", "blog", "github"}) =>
            result.label = IF "source" \in fields THEN m.source ELSE "Unknown Source"

\* The label of page 2 of cv.pdf.
C6_Witness ==
  /\ result.op = "extract_source_info"
  /\ result.metadata = [source_type |-> "pdf", source |-> "cv.pdf", page |-> 2]
  /\ result.label = "cv.pdf, Page 3"

HealthFields ==
  {"retriever_ready", "llm_ready", "database_count", "translator_available",
   "model_provider", "embedding_provider"}

\* C7: health_check never raises. A failed retriever or model probe becomes
\* the error field of the returned status; on a collection with no entries,
\* with both probes working, it reports retriever_ready = true and
\* database_count = 0.
C7_HealthCheckNeverRaises ==
  result.op = "health_check" =>
    /\ HealthFields \subseteq DOMAIN result.status
    /\ (result.probe_fault # "none" <=> "error" \in DOMAIN result.status)
    /\ (result.probe_fault = "none" /\ Count(collection) = 0) =>
         /\ result.status.retriever_ready = TRUE
         /\ result.status.database_count = 0

\* A health check of an existing, empty collection with both probes working.
C7_Witness ==
  /\ result.op = "health_check"
  /\ result.probe_fault = "none"
  /\ Count(collection) = 0
  /\ result.status.retriever_ready
  /\ result.status.llm_ready
  /\ result.status.database_count = 0

\* C8: whenever the retriever probe succeeds, the database_count of
\* health_check and the knowledge_base_size of /stats are the collection's
\* count().
C8_DatabaseCountIsCount ==
  /\ (result.op = "health_check" /\ result.status.retriever_ready) =>
       result.status.database_count = Count(collection)
  /\ (result.op = "GET /stats" /\ result.http = 200 /\ result.health_data.retriever_ready) =>
       result.stats.knowledge_base_size = Count(collection)

\* C9: chat("", language) yields the error Answer: the fixed apology, no
\* sources and an error detail.
C9_EmptyQueryIsAnError ==
  (result.op = "chat" /\ result.answer.original_query = "") =>
    /\ result.answer.response = Apology
    /\ result.answer.sources = <<>>
    /\ "error" \in DOMAIN result.answer

\* The chunks of the batches that failed in a run.
RECURSIVE SumSizes(_, _)
SumSizes(starts, n) ==
  IF starts = {} THEN 0
  ELSE LET i == CHOOSE x \in starts : TRUE IN
       (Min(i + batch_size, n) - i) + SumSizes(starts \ {i}, n)
FailedChunks(run) == SumSizes(run.failed, Len(ChunkTable[run.corpus]))

C11_ReingestionReplaces ==
  (engine = Idle /\ Len(runs) >= 2
     /\ runs[Len(runs) - 1].corpus = "small1"
     /\ runs[Len(runs)].corpus = "small2"
     /\ runs[Len(runs)].failed = {}) =>
    LET chunks == ChunkTable[runs[Len(runs)].corpus] IN
    \A id \in DOMAIN collection :
      /\ id < Len(chunks)
      /\ collection[id].document = chunks[id + 1].page_content
      /\ collection[id].metadata = chunks[id + 1].metadata
      /\ \E p \in {"OpenAIEmbeddings", "HuggingFaceEmbeddings"} :
           collection[id].embedding = <<p>> \o Embed(chunks[id + 1].page_content)

\* The offset at which the batch of the chunk at offset k starts.
BatchStart(k) == k - (k % batch_size)

\* C12: the chunks are stored in consecutive batches of at most 100. When
\* embedding or storing a batch fails, the later batches are still attempted
\* and the script ends normally: after a run every chunk of a batch that did
\* not fail is in the index (on a fresh index: with its text, metadata and
\* vector, and the chunks of the failed batches are absent), and the only
\* error exit of the script is a configuration error raised before the loop.
C12_BatchFailuresAreSkipped ==
  /\ engine.pc = "storing" =>
       LET chunks == ChunkTable[engine.corpus] IN
       /\ engine.i % batch_size = 0
       /\ engine.i < Len(chunks)
       /\ Cardinality(DOMAIN Batch(chunks, engine.i, engine.embeddings)) \in 1..batch_size
       /\ \A b \in engine.failed : b % batch_size = 0 /\ b < engine.i
  /\ (result.op = "ingest" /\ result.exit = 1) =>
       result.raised = "ValueError: OPENAI_API_KEY is required when using OpenAI embeddings"
  /\ (result.op = "ingest" /\ result.exit = 0) =>
       LET run == runs[Len(runs)]
           chunks == ChunkTable[run.corpus]
       IN \A k \in 0..(Len(chunks) - 1) :
            /\ BatchStart(k) \notin run.failed => ChunkId(k) \in DOMAIN collection
            /\ Len(runs) = 1 =>
                 IF BatchStart(k) \in run.failed
                   THEN ChunkId(k) \notin DOMAIN collection
                   ELSE /\ collection[ChunkId(k)].document = chunks[k + 1].page_content
                        /\ collection[ChunkId(k)].metadata = chunks[k + 1].metadata

\* A first run over the large corpus whose first batch failed: the second
\* batch was stored, and the script ended normally.
C12_Witness ==
  /\ result.op = "ingest" /\ result.exit = 0
  /\ Len(runs) = 1
  /\ runs[1].corpus = "large"
  /\ runs[1].failed = {0}
  /\ DOMAIN collection = {ChunkId(batch_size)}

\* The number of chunks of the documents before document d.
RECURSIVE ChunksBefore(_, _)
ChunksBefore(documents, d) ==
  IF d = 1 THEN 0
  ELSE ChunksBefore(documents, d - 1) + Len(documents[d - 1].page_content)

\* The ids of the chunks of document d of a run.
DocumentIds(documents, d) ==
  {ChunkId(ChunksBefore(documents, d) + j - 1) : j \in 1..Len(documents[d].page_content)}

\* C13: after an ingestion run (on a fresh index) in which something failed
\* to store, every source document has either all of its chunks in the index
\* or none of them.
C13_NoItemHalfWritten ==
  (result.op = "ingest" /\ result.exit = 0 /\ Len(runs) = 1) =>
    LET documents == Documents(runs[1].corpus) IN
    \A d \in 1..Len(documents) :
      \/ DocumentIds(documents, d) \subseteq DOMAIN collection
      \/ DocumentIds(documents, d) \cap DOMAIN collection = {}

\* The Documents docs are those of the items keys, one each, in the order
\* Before: MetaOf(k) is the metadata of the Document of item k.
InOrder(docs, keys, MetaOf(_), Before(_, _)) ==
  /\ Len(docs) = Cardinality(keys)
  /\ \A n \in 1..Len(docs) : \E k \in keys : docs[n].metadata = MetaOf(k)
  /\ \A n, m \in 1..Len(docs) :
       n < m => \E a, b \in keys : /\ docs[n].metadata = MetaOf(a)
                                   /\ docs[m].metadata = MetaOf(b)
                                   /\ Before(a, b)

\* C14: every loader fails soft. Whatever fails to load, each loader returns
\* the Documents of exactly the items that load, in source order: the pages of
\* the PDF files that load, file by file; the text files that load (*.txt
\* before *.md); the pages fetched with content; the repositories processed
\* without an error. A loader given no source returns the empty sequence.
C14_LoadersFailSoft ==
  /\ result.op = "load_pdf_documents" =>
       LET files == result.files IN
       /\ InOrder(result.documents,
                  {k \in (1..Len(files)) \X {0, 1} :
                     /\ files[k[1]].ext = "pdf" /\ files[k[1]].load = "ok"
                     /\ k[2] < files[k[1]].pages},
                  LAMBDA k : [source |-> FileName(k[1], "pdf"), source_type |-> "pdf",
                              file_path |-> "data/" \o FileName(k[1], "pdf"), page |-> k[2]],
                  LAMBDA a, b : a[1] < b[1] \/ (a[1] = b[1] /\ a[2] < b[2]))
       /\ (\A i \in 1..Len(files) : files[i].ext # "pdf") => result.documents = <<>>
  /\ result.op = "load_text_documents" =>
       LET files == result.files IN
       /\ InOrder(result.documents,
                  {i \in 1..Len(files) : files[i].ext \in {"txt", "md"} /\ files[i].load = "ok"},
                  LAMBDA i : [source |-> FileName(i, files[i].ext), source_type |-> "text",
                              file_path |-> "data/" \o FileName(i, files[i].ext)],
                  LAMBDA a, b : \/ files[a].ext = "txt" /\ files[b].ext = "md"
                                \/ files[a].ext = files[b].ext /\ a < b)
       /\ (\A i \in 1..Len(files) : files[i].ext = "pdf") => result.documents = <<>>
  /\ result.op = "scrape_blog_urls" =>
       LET urls == result.urls IN
       /\ InOrder(result.documents,
                  {i \in 1..Len(urls) : urls[i].fetch = "ok"},
                  LAMBDA i : [source |-> UrlOf(i), source_type |-> "blog", url |-> UrlOf(i),
                              title |-> IF urls[i].titled THEN "Post " \o ToString(i) ELSE UrlOf(i)],
                  LAMBDA a, b : a < b)
       /\ urls = <<>> => result.documents = <<>>
  /\ result.op = "fetch_github_repositories" =>
       LET repositories == result.repositories IN
       /\ InOrder(result.documents,
                  {i \in 1..Len(repositories) :
                     /\ result.github_token /\ result.listing = "ok"
                     /\ repositories[i].outcome # "error"},
                  LAMBDA i : GithubMeta(RepoName(i)),
                  LAMBDA a, b : a < b)
       /\ repositories = <<>> => result.documents = <<>>

\* load_pdf_documents on a directory whose first PDF fails to load and whose
\* second PDF has two pages: the two pages of the second are returned.
C14_Witness ==
  /\ result.op = "load_pdf_documents"
  /\ Len(result.files) >= 2
  /\ result.files[1] = [ext |-> "pdf", load |-> "error", pages |-> 1]
  /\ result.files[2] = [ext |-> "pdf", load |-> "ok", pages |-> 2]
  /\ Len(result.documents) >= 2
  /\ result.documents[1].metadata.source = "f2.pdf" /\ result.documents[1].metadata.page = 0
  /\ result.documents[2].metadata.source = "f2.pdf" /\ result.documents[2].metadata.page = 1

\* The configurations with which construction must fail: OpenAI selected
\* without its key, an unsupported embedding or model provider, the Ollama
\* server unreachable, or no collection in the database.
ConfigurationError(env, colls) ==
  LET embedding == IF "EMBEDDING_PROVIDER" \in DOMAIN env
                     THEN env.EMBEDDING_PROVIDER ELSE Chars_local
      model == IF "MODEL_PROVIDER" \in DOMAIN env THEN env.MODEL_PROVIDER ELSE Chars_ollama
      hosted == {Chars_openai, Chars_OpenAI}
  IN \/ embedding \in hosted /\ "OPENAI_API_KEY" \notin DOMAIN env
     \/ embedding \notin hosted \cup {Chars_local}
     \/ model \in hosted /\ "OPENAI_API_KEY" \notin DOMAIN env
     \/ model = Chars_ollama /\ ~env.ollama_up
     \/ model \notin hosted \cup {Chars_ollama}
     \/ CollectionName \notin colls

AgentFields == {"embeddings", "llm", "translator", "model_provider", "embedding_provider"}

\* C15: a configuration error at startup aborts initialization. The lifespan
\* hook raises exactly when the configuration is in error and then both
\* globals stay unset; an agent that is set is complete and was built over an
\* existing collection; /chat, /suggestions and /stats answer 503 exactly
\* when the global agent is unset.
C15_StartupErrorAborts ==
  /\ result.op = "lifespan" =>
       /\ (result.raised # "no") <=> ConfigurationError(result.env, chroma)
       /\ result.raised # "no" => agent = NoAgent /\ agent_instance = NoAgent
       /\ result.raised = "no" => agent # NoAgent
  /\ agent # NoAgent =>
       /\ DOMAIN agent = AgentFields
       /\ agent.embeddings \in {"OpenAIEmbeddings", "HuggingFaceEmbeddings"}
       /\ agent.llm \in {"ChatOpenAI", "ChatOllama"}
       /\ CollectionName \in chroma
       /\ agent_instance = agent
  /\ result.op \in {"POST /chat", "GET /suggestions", "GET /stats"} =>
       (result.http = 503 <=> agent = NoAgent)

\* A start with a valid configuration before any ingestion: the collection
\* is missing, the hook raised and the agent is unset.
C15_Witness ==
  /\ result.op = "lifespan"
  /\ result.env = [ollama_up |-> TRUE, translate_ok |-> TRUE]
  /\ result.raised = "ValueError: Collection vitae_knowledge does not exist"
  /\ agent = NoAgent
  /\ agent_instance = NoAgent

\* C16: for every value of the embedding-provider setting, with or without
\* the hosted credential, DataIngestionEngine and ModelConfig.get_embeddings
\* either both select the same embeddings or both fail.
C16_SameEmbeddingProvider ==
  result.op = "select providers" =>
    /\ result.get_embeddings.ok = result.ingest_embeddings.ok
    /\ result.get_embeddings.ok => result.get_embeddings.value = result.ingest_embeddings.value

\* C17: chat and health_check are read-only and stateless. A step that is a
\* chat or health_check call leaves the index (the database's collections,
\* the entries and so count()) and the agent untouched, and the Answer of a
\* chat call is the one its arguments, the current index and the providers'
\* behaviour determine, whatever calls came before; the index changes only
\* in a step of the ingestion script's batch loop.
C17_ReadOnlyCalls ==
  [][ /\ (result.op = "none" /\ result'.op \in {"chat", "health_check"}) =>
           /\ collection' = collection
           /\ chroma' = chroma
           /\ agent' = agent
           /\ agent_instance' = agent_instance
           /\ result'.op = "chat" =>
                \E prov \in ProviderOutcomes :
                  result'.answer =
                    chat(agent', collection', result'.answer.original_query,
                         result'.answer.language, result'.fault, prov).answer
           /\ result'.op = "health_check" =>
                \E test_response \in {"", "Hi"} :
                  result'.status =
                    health_check(agent', collection', result'.probe_fault, test_response)
      /\ collection' # collection => engine.pc = "storing"
      /\ chroma' # chroma => (engine.pc = "idle" /\ result'.op # "lifespan")
    ]_vars

\* A chat call answered from the six stored chunks while a second ingestion
\* run is in its batch loop.
C17_Witness ==
  /\ result.op = "chat"
  /\ engine.pc = "storing"
  /\ Len(runs) = 1
  /\ Count(collection) = 6
  /\ "error" \notin DOMAIN result.answer
  /\ Len(result.answer.sources) = RetrieverK

Positions(calls, x) == {n \in 1..Len(calls) : calls[n] = x}

\* C19: in a chat call in "fr" on an agent with a translator, with every
\* provider working, the steps run in this order, each once: translate the
\* query (the translator is asked to detect its language), retrieve, call the
\* model, translate the answer, retrieve again; and the answer is translated
\* exactly when the query was.
C19_TranslateRetrieveGenerate ==
  (/\ result.op = "chat" /\ result.fault = "none"
   /\ agent.translator # None /\ result.answer.language = FR
   /\ ~Has(result.calls, "detect failed") /\ ~Has(result.calls, "translate failed")) =>
    LET calls == result.calls
        t == Positions(calls, "detect")
        r == Positions(calls, "retrieve")
        g == Positions(calls, "generate")
    IN /\ Cardinality(t) = 2 /\ Cardinality(r) = 2 /\ Cardinality(g) = 1
       /\ \E t1, t2 \in t, r1, r2 \in r, g1 \in g :
            t1 < r1 /\ r1 < g1 /\ g1 < t2 /\ t2 < r2
       /\ (\E n \in Positions(calls, "translate") : \A g1 \in g : n > g1)
            <=> (\E n \in Positions(calls, "translate") : \A r1 \in r : n < r1)

\* C20: on the success path of chat the sources are the chunks a retrieval on
\* processed_query returns, one entry each, in retrieval order, at most 5;
\* an entry's source is the chunk's source label and its content_preview is
\* the whole text of a chunk of at most 200 characters, and otherwise the
\* first 200 characters followed by "...".
C20_SourcesList ==
  (result.op = "chat" /\ "error" \notin DOMAIN result.answer) =>
    LET sources == result.answer.sources
        docs == get_relevant_documents(collection, result.answer.processed_query)
    IN /\ Len(sources) = Len(docs)
       /\ Len(sources) = Min(Count(collection), 5)
       /\ \A n \in 1..Len(sources) :
            LET text == docs[n].document
                length == Len(text.body) + text.fill
            IN /\ DOMAIN sources[n] = {"source", "content_preview"}
               /\ sources[n].source = extract_source_info(docs[n].metadata)
               /\ length <= 200 =>
                    /\ sources[n].content_preview = text.body \o Filler(text.fill)
                    /\ Len(sources[n].content_preview) = length
               /\ length > 200 =>
                    /\ sources[n].content_preview =
                         text.body \o Filler(200 - Len(text.body)) \o "..."
                    /\ Len(sources[n].content_preview) = 203

\* A successful chat on the six stored chunks: five sources, the first from a
\* chunk of 201 characters (cut, with the marker), the second from a chunk of
\* exactly 200 characters (whole).
C20_Witness ==
  /\ result.op = "chat"
  /\ "error" \notin DOMAIN result.answer
  /\ Count(collection) = 6
  /\ Len(result.answer.sources) = 5
  /\ result.answer.sources[1].source = "cv.pdf, Page 1"
  /\ Len(result.answer.sources[1].content_preview) = 203
  /\ Len(result.answer.sources[2].content_preview) = 200

\* C21: in scrape_blog_urls, whatever the outcome of each fetch, a delay of
\* one second lies between any two consecutive HTTP requests.
C21_DelayBetweenRequests ==
  result.op = "scrape_blog_urls" =>
    \A n, m \in Positions([k \in 1..Len(result.events) |-> result.events[k][1]], "GET") :
      n < m => \E d \in (n + 1)..(m - 1) : result.events[d] = <<"sleep", 1>>

\* C22: get_agent() constructs a VitaeAgent only while the module-level
\* instance is unset. A call that returns leaves the instance set and returns
\* it; once set, every later call returns that same instance without
\* constructing, whatever the environment has become; a call whose
\* construction raises leaves the instance unset, so the next call constructs
\* again.
C22_ConstructedAtMostOnce ==
  result.op = "get_agent" =>
    /\ result.call.constructed <=> result.before = NoAgent
    /\ result.call.raised = "no" =>
         /\ agent_instance # NoAgent
         /\ result.call.value = agent_instance
         /\ result.before # NoAgent => agent_instance = result.before
         /\ result.before = NoAgent => ~ConfigurationError(result.env, chroma)
    /\ result.call.raised # "no" =>
         /\ agent_instance = NoAgent
         /\ result.before = NoAgent
         /\ ConfigurationError(result.env, chroma)

\* A call made after the instance was built, in an environment with which
\* construction would fail: the cached instance comes back, nothing is
\* constructed.
C22_Witness ==
  /\ result.op = "get_agent"
  /\ result.before # NoAgent
  /\ ConfigurationError(result.env, chroma)
  /\ result.call.raised = "no"
  /\ ~result.call.constructed
  /\ result.call.value = result.before
  /\ agent_instance = result.before

====
